---- MODULE Spec2Model ----
(***************************************************************************)
(* GeoJson2Rhino.py: translation of GeoJSON feature collections into       *)
(* objects and layers of a Rhino document.                                 *)
(*                                                                         *)
(* The document (scriptcontext.doc) is the only state: its layer table and *)
(* its object table.  Every entry point of the module is one action.  A    *)
(* Python dict is a set of <<key, value>> pairs with unique keys, except   *)
(* the dicts whose keys the code reads by name (a feature, a geometry, a   *)
(* feature collection), which are records: a key the dict lacks is a field *)
(* the record lacks, and reading it raises KeyError.                       *)
(***************************************************************************)
EXTENDS Integers, Sequences, FiniteSets, TLC

VARIABLES layers, objects, call, outcome, pre

vars == <<layers, objects, call, outcome, pre>>

(* ------------------------------ bounds -------------------------------- *)
MaxFeatures == 2
MaxRings == 2
MaxPolygons == 2
MaxLayerFeatures == 1

(* --------------------------- Python values ---------------------------- *)
None == "None"
PyNone == [py |-> "NoneType"]
PyStr(s) == [py |-> "str", s |-> s]
PyInt(n) == [py |-> "int", n |-> n]
PyFloat(t) == [py |-> "float", tenths |-> t]
PyDict(items) == [py |-> "dict", items |-> items]
PyList(items) == [py |-> "list", items |-> items]
Guid(n) == [py |-> "Guid", id |-> n]

Keys(items) == {kv[1] : kv \in items}

Returned(lyrs, objs, value) ==
    [layers |-> lyrs, objects |-> objs, exc |-> "none", ret |-> value]
Raised(lyrs, objs, exc, what) ==
    [layers |-> lyrs, objects |-> objs, exc |-> exc, ret |-> PyStr(what)]

(* str(): the text form of a property value.  Under IronPython, the
   interpreter of the host, str is the unicode type: a string value is its
   own text, and a string inside a dict is quoted without a u prefix. *)
RECURSIVE strMembers(_)
repr(v) ==
    CASE v.py = "NoneType" -> "None"
      [] v.py = "str" -> "'" \o v.s \o "'"
      [] v.py = "int" -> ToString(v.n)
      [] v.py = "float" -> ToString(v.tenths \div 10) \o "." \o ToString(v.tenths % 10)
      [] v.py = "dict" -> "{" \o strMembers(v.items) \o "}"

strMembers(items) ==
    IF items = {} THEN ""
    ELSE LET kv == CHOOSE m \in items : TRUE
             rest == items \ {kv}
         IN  "'" \o kv[1] \o "': " \o repr(kv[2])
                 \o (IF rest = {} THEN "" ELSE ", " \o strMembers(rest))

strFloatAsInt(v) ==
    IF v.py = "str" THEN v.s
    ELSE IF v.py = "float" THEN ToString(v.tenths \div 10)
    ELSE repr(v)

str(v) == IF v.py = "str" THEN v.s ELSE repr(v)

(* json.loads: JSON text to Python values.  A text is either malformed or
   the JSON value it spells; a number literal with a fraction decodes to a
   float (kept in tenths), one without to an int. *)
ParseNumber(lit) ==
    CASE lit = "0.0" -> PyFloat(0)
      [] lit = "1.50" -> PyFloat(15)
      [] lit = "0" -> PyInt(0)

RECURSIVE DecodeValue(_)
DecodeValue(j) ==
    CASE j.j = "null" -> PyNone
      [] j.j = "number" -> ParseNumber(j.lit)
      [] j.j = "string" -> PyStr(j.s)
      [] j.j = "object" -> PyDict({<<m[1], DecodeValue(m[2])>> : m \in j.members})

DecodeFeature(jf) ==
    [geometry |-> jf.geometry, properties |-> DecodeValue(jf.properties)]

DecodeCollection(jc) ==
    [features |-> [i \in 1..Len(jc.features) |-> DecodeFeature(jc.features[i])]]

DecodeLayers(jl) ==
    [i \in 1..Len(jl) |-> <<jl[i][1], DecodeCollection(jl[i][2])>>]

(* ----------------------- the document's layer table ------------------- *)
Black == "Black"
Colors == {"Black", "Red"}
Names == {"a", "b"}

Find(lyrs, layerName) ==
    IF \E i \in 1..Len(lyrs) : lyrs[i].Name = layerName
    THEN (CHOOSE i \in 1..Len(lyrs) :
             /\ lyrs[i].Name = layerName
             /\ \A k \in 1..(i - 1) : lyrs[k].Name # layerName) - 1
    ELSE -1

addRhinoLayerDup(lyrs, layerName, layerColor) ==
    [layers |-> Append(lyrs, [Name |-> layerName, Color |-> layerColor]),
     index |-> Len(lyrs)]

addRhinoLayer(lyrs, layerName, layerColor) ==
    LET layerIndex == Find(lyrs, layerName)
    IN  IF layerIndex = -1
        THEN [layers |-> Append(lyrs, [Name |-> layerName, Color |-> layerColor]),
              index |-> Len(lyrs)]
        ELSE [layers |-> IF lyrs[layerIndex + 1].Color # layerColor
                         THEN [lyrs EXCEPT ![layerIndex + 1].Color = layerColor]
                         ELSE lyrs,
              index |-> layerIndex]

(* ----------------------- coordinates to geometry ---------------------- *)
Point3d(x, y, z) == [X |-> x, Y |-> y, Z |-> z]
CreateControlPointCurve(points, degree) == [ControlPoints |-> points, Degree |-> degree]

PointToRhinoPoint(coordinates) == Point3d(coordinates[1], coordinates[2], 0)

MultiPointToRhinoPoint(coordinates) ==
    [i \in 1..Len(coordinates) |-> PointToRhinoPoint(coordinates[i])]

LineStringToRhinoCurve(coordinates) ==
    CreateControlPointCurve(MultiPointToRhinoPoint(coordinates), 1)

MultiLineStringToRhinoCurve(coordinates) ==
    [i \in 1..Len(coordinates) |-> LineStringToRhinoCurve(coordinates[i])]

PolygonOuterOnly(coordinates) ==
    IF Len(coordinates) = 0 THEN <<>>
    ELSE <<LineStringToRhinoCurve(coordinates[1])>>

PolygonToRhinoCurve(coordinates) ==
    [i \in 1..Len(coordinates) |-> LineStringToRhinoCurve(coordinates[i])]

MultiPolygonToRhinoCurve(coordinates) ==
    [i \in 1..Len(coordinates) |-> PolygonToRhinoCurve(coordinates[i])]

GeometryCollectionToParser(geometries) == PyNone

(* ----------------------- geometry to document objects ----------------- *)
RhinoObject(geometry, objAtt) == [Geometry |-> geometry, Attributes |-> objAtt]

addPoint(objs, rhPoint, objAtt) ==
    [objects |-> Append(objs, RhinoObject(rhPoint, objAtt)),
     ret |-> Guid(Len(objs) + 1)]

addPoints(objs, rhPoints, objAtt) ==
    [objects |-> objs \o [i \in 1..Len(rhPoints) |-> RhinoObject(rhPoints[i], objAtt)],
     ret |-> PyList([i \in 1..Len(rhPoints) |-> Guid(Len(objs) + i)])]

addCurve(objs, rhCurve, objAtt) ==
    [objects |-> Append(objs, RhinoObject(rhCurve, objAtt)),
     ret |-> Guid(Len(objs) + 1)]

RECURSIVE addCurvesFrom(_, _, _, _, _)
addCurvesFrom(objs, rhCurves, objAtt, i, guidList) ==
    IF i > Len(rhCurves) THEN [objects |-> objs, ret |-> PyList(guidList)]
    ELSE LET added == addCurve(objs, rhCurves[i], objAtt)
         IN  addCurvesFrom(added.objects, rhCurves, objAtt, i + 1,
                           Append(guidList, added.ret))

addCurves(objs, rhCurves, objAtt) == addCurvesFrom(objs, rhCurves, objAtt, 1, <<>>)

addPolygon(objs, ringList, objAtt) == addCurves(objs, ringList, objAtt)

RECURSIVE addPolygonsAppending(_, _, _, _, _)
addPolygonsAppending(objs, polygonList, objAtt, i, guidList) ==
    IF i > Len(polygonList) THEN [objects |-> objs, ret |-> PyList(guidList)]
    ELSE LET added == addPolygon(objs, polygonList[i], objAtt)
         IN  addPolygonsAppending(added.objects, polygonList, objAtt, i + 1,
                                  Append(guidList, added.ret))

RECURSIVE addPolygonsFrom(_, _, _, _, _)
addPolygonsFrom(objs, polygonList, objAtt, i, guidList) ==
    IF i > Len(polygonList) THEN [objects |-> objs, ret |-> PyList(guidList)]
    ELSE LET added == addPolygon(objs, polygonList[i], objAtt)
         IN  addPolygonsFrom(added.objects, polygonList, objAtt, i + 1,
                             guidList \o added.ret.items)

addPolygonsNested(objs, polygonList, objAtt) ==
    addPolygonsAppending(objs, polygonList, objAtt, 1, <<>>)

addPolygons(objs, polygonList, objAtt) ==
    addPolygonsFrom(objs, polygonList, objAtt, 1, <<>>)

(* --------------------------- the dispatch table ----------------------- *)
Pair(converter, adder) == [tuple |-> TRUE, items |-> <<converter, adder>>]
Bare(converter) == [tuple |-> FALSE, fn |-> converter]

geoJsonGeometryMap ==
    [Point |-> Pair("PointToRhinoPoint", "addPoint"),
     MultiPoint |-> Pair("MultiPointToRhinoPoint", "addPoints"),
     LineString |-> Pair("LineStringToRhinoCurve", "addCurve"),
     MultiLineString |-> Pair("MultiLineStringToRhinoCurve", "addCurves"),
     Polygon |-> Pair("PolygonToRhinoCurve", "addPolygon"),
     MultiPolygon |-> Pair("MultiPolygonToRhinoCurve", "addPolygons"),
     GeometryCollection |-> Bare("GeometryCollectionToParser")]

CallConverter(fn, coordinates) ==
    CASE fn = "PointToRhinoPoint" -> PointToRhinoPoint(coordinates)
      [] fn = "MultiPointToRhinoPoint" -> MultiPointToRhinoPoint(coordinates)
      [] fn = "LineStringToRhinoCurve" -> LineStringToRhinoCurve(coordinates)
      [] fn = "MultiLineStringToRhinoCurve" -> MultiLineStringToRhinoCurve(coordinates)
      [] fn = "PolygonToRhinoCurve" -> PolygonToRhinoCurve(coordinates)
      [] fn = "MultiPolygonToRhinoCurve" -> MultiPolygonToRhinoCurve(coordinates)

CallAdder(fn, objs, rhFeature, objAtt) ==
    CASE fn = "addPoint" -> addPoint(objs, rhFeature, objAtt)
      [] fn = "addPoints" -> addPoints(objs, rhFeature, objAtt)
      [] fn = "addCurve" -> addCurve(objs, rhFeature, objAtt)
      [] fn = "addCurves" -> addCurves(objs, rhFeature, objAtt)
      [] fn = "addPolygon" -> addPolygon(objs, rhFeature, objAtt)
      [] fn = "addPolygons" -> addPolygons(objs, rhFeature, objAtt)

LookupOrPoint(geomType) ==
    IF geomType \in DOMAIN geoJsonGeometryMap
    THEN [found |-> TRUE, entry |-> geoJsonGeometryMap[geomType]]
    ELSE [found |-> TRUE, entry |-> geoJsonGeometryMap["Point"]]

LookupGeometry(geomType) ==
    IF geomType \in DOMAIN geoJsonGeometryMap
    THEN [found |-> TRUE, entry |-> geoJsonGeometryMap[geomType]]
    ELSE [found |-> FALSE]

(* ------------------------------ processGeoJson ------------------------ *)
(* A fresh attribute set.  LayerAssigned records whether att.LayerIndex was
   assigned (line 170): the index a fresh set holds is the host's choice. *)
ObjectAttributes == [LayerIndex |-> 0, LayerAssigned |-> FALSE, UserStrings |-> {}]

SetUserStrings(att, items) ==
    [att EXCEPT !.UserStrings =
        {kv \in @ : kv[1] \notin Keys(items)}
            \cup {<<kv[1], str(kv[2])>> : kv \in items}]

Truthy(v) == v.py = "dict" /\ v.items # {}

LayerRequestedAlways(destinationLayer) == TRUE

LayerRequested(destinationLayer) == destinationLayer # None

AccumulateExtend(guidResults, added) ==
    IF added.py = "list" THEN guidResults \o added.items
    ELSE Append(guidResults, added)

Accumulate(guidResults, added) == Append(guidResults, added)

RECURSIVE processFeatures(_, _, _, _, _, _, _)
processFeatures(jsonFeatures, i, destinationLayer, destinationLayerColor, lyrs, objs, guidResults) ==
    IF i > Len(jsonFeatures) THEN Returned(lyrs, objs, PyList(guidResults))
    ELSE
    LET jsonFeature == jsonFeatures[i]
        lyr == IF LayerRequested(destinationLayer)
               THEN addRhinoLayer(lyrs, destinationLayer, destinationLayerColor)
               ELSE [layers |-> lyrs, index |-> ObjectAttributes.LayerIndex]
        att0 == IF LayerRequested(destinationLayer)
                THEN [ObjectAttributes EXCEPT !.LayerIndex = lyr.index,
                                              !.LayerAssigned = TRUE]
                ELSE ObjectAttributes
        att == IF Truthy(jsonFeature.properties)
               THEN SetUserStrings(att0, jsonFeature.properties.items)
               ELSE att0
        geom == jsonFeature.geometry
    IN  IF "coordinates" \notin DOMAIN geom
        THEN Raised(lyr.layers, objs, "KeyError", "coordinates")
        ELSE IF ~LookupGeometry(geom.type).found
        THEN Raised(lyr.layers, objs, "KeyError", geom.type)
        ELSE IF ~LookupGeometry(geom.type).entry.tuple
        THEN Raised(lyr.layers, objs, "TypeError", "function is not subscriptable")
        ELSE
        LET entry == LookupGeometry(geom.type).entry
            rhFeature == CallConverter(entry.items[1], geom.coordinates)
            added == CallAdder(entry.items[2], objs, rhFeature, att)
        IN  processFeatures(jsonFeatures, i + 1, destinationLayer,
                            destinationLayerColor, lyr.layers, added.objects,
                            Accumulate(guidResults, added.ret))

processGeoJson(lyrs, objs, parsedGeoJson, destinationLayer, destinationLayerColor) ==
    processFeatures(parsedGeoJson.features, 1, destinationLayer,
                    destinationLayerColor, lyrs, objs, <<>>)

(* ------------------------------ load, loadLayers ---------------------- *)
Malformed == [malformed |-> TRUE]
Text(j) == [malformed |-> FALSE, value |-> j]

loadForwarding(lyrs, objs, rawGeoJsonData, destinationLayer, destinationLayerColor) ==
    IF rawGeoJsonData.malformed
    THEN Raised(lyrs, objs, "ValueError", "No JSON object could be decoded")
    ELSE processGeoJson(lyrs, objs, DecodeCollection(rawGeoJsonData.value),
                        destinationLayer, destinationLayerColor)

load(lyrs, objs, rawGeoJsonData, destinationLayer, destinationLayerColor) ==
    IF rawGeoJsonData.malformed
    THEN Raised(lyrs, objs, "ValueError", "No JSON object could be decoded")
    ELSE processGeoJson(lyrs, objs, DecodeCollection(rawGeoJsonData.value),
                        None, Black)

RECURSIVE loadLayersFrom(_, _, _, _, _)
loadLayersFrom(layersJson, i, lyrs, objs, allResults) ==
    IF i > Len(layersJson) THEN Returned(lyrs, objs, PyList(allResults))
    ELSE LET layerKey == layersJson[i][1]
             layerResults == processGeoJson(lyrs, objs, layersJson[i][2],
                                            layerKey, Black)
         IN  IF layerResults.exc # "none" THEN layerResults
             ELSE loadLayersFrom(layersJson, i + 1, layerResults.layers,
                                 layerResults.objects,
                                 Append(allResults, layerResults.ret))

loadLayers(lyrs, objs, rawJsonData) ==
    IF rawJsonData.type = "str"
    THEN IF rawJsonData.text.malformed
         THEN Raised(lyrs, objs, "ValueError", "No JSON object could be decoded")
         ELSE loadLayersFrom(DecodeLayers(rawJsonData.text.value), 1, lyrs, objs, <<>>)
    ELSE IF rawJsonData.type = "dict"
    THEN loadLayersFrom(rawJsonData.value, 1, lyrs, objs, <<>>)
    ELSE Raised(lyrs, objs, "UnboundLocalError", "layersJson")

(* ------------------------------ the inputs ---------------------------- *)
Pt(n) == <<n, n + 1>>
Ring(n) == <<Pt(n), Pt(n + 1), Pt(n + 2), Pt(n)>>
Rings(k, base) == [r \in 1..k |-> Ring(base + r)]

PolygonPayloads == {Rings(k, 0) : k \in 0..MaxRings}
MultiPolygonPayloads ==
    UNION {{[p \in 1..m |-> Rings(ks[p], 10 * p)] : ks \in [1..m -> 0..MaxRings]} :
              m \in 0..MaxPolygons}

GPoint == [type |-> "Point", coordinates |-> <<102, 5, 9>>]
GMultiPoint == [type |-> "MultiPoint", coordinates |-> <<Pt(1), Pt(2)>>]
GLineString == [type |-> "LineString", coordinates |-> <<Pt(3), Pt(4), Pt(5)>>]
GMultiLineString ==
    [type |-> "MultiLineString", coordinates |-> <<<<Pt(1), Pt(2)>>, <<Pt(3), Pt(4)>>>>]
GPolygon == [type |-> "Polygon", coordinates |-> Rings(2, 0)]
GMultiPolygon ==
    [type |-> "MultiPolygon", coordinates |-> <<Rings(2, 10), Rings(1, 20)>>]
GCollection == [type |-> "GeometryCollection", geometries |-> <<GPoint>>]
GCollectionWithCoordinates ==
    [type |-> "GeometryCollection", coordinates |-> <<102, 5>>]
GCircle == [type |-> "Circle", coordinates |-> <<102, 5>>]

GeometryNames ==
    {"Point", "MultiPoint", "LineString", "MultiLineString", "Polygon",
     "MultiPolygon", "GeometryCollection", "GeometryCollectionWithCoordinates",
     "Circle"}

Geometry(name) ==
    CASE name = "Point" -> GPoint
      [] name = "MultiPoint" -> GMultiPoint
      [] name = "LineString" -> GLineString
      [] name = "MultiLineString" -> GMultiLineString
      [] name = "Polygon" -> GPolygon
      [] name = "MultiPolygon" -> GMultiPolygon
      [] name = "GeometryCollection" -> GCollection
      [] name = "GeometryCollectionWithCoordinates" -> GCollectionWithCoordinates
      [] name = "Circle" -> GCircle

JNull == [j |-> "null"]
JNumber(lit) == [j |-> "number", lit |-> lit]
JString(s) == [j |-> "string", s |-> s]
JObject(members) == [j |-> "object", members |-> members]

OtherPropertiesNames == {"null", "empty", "nested", "numbers"}

JProperties(name) ==
    CASE name = "doc" ->
            JObject({<<"prop0", JString("value0")>>, <<"prop1", JNumber("0.0")>>})
      [] name = "null" -> JNull
      [] name = "empty" -> JObject({})
      [] name = "nested" ->
            JObject({<<"prop1", JObject({<<"this", JString("that")>>})>>})
      [] name = "numbers" ->
            JObject({<<"prop2", JNumber("1.50")>>, <<"prop3", JNumber("0")>>,
                     <<"prop4", JNull>>})

(* A feature of the input is named by <<geometry name, properties name>>. *)
JFeature(id) == [geometry |-> Geometry(id[1]), properties |-> JProperties(id[2])]
FeatureIds ==
    {<<g, "doc">> : g \in GeometryNames}
        \cup {<<"Point", p>> : p \in OtherPropertiesNames}
LayerFeatureIds == {<<"Point", "doc">>, <<"Polygon", "null">>, <<"Circle", "null">>}

SeqsUpTo(ids, n) == UNION {[1..m -> ids] : m \in 0..n}
JCollection(ids) == [features |-> [x \in 1..Len(ids) |-> JFeature(ids[x])]]

CollectionIds == SeqsUpTo(FeatureIds, MaxFeatures)
LayerCollectionIds == SeqsUpTo(LayerFeatureIds, MaxLayerFeatures)

KeyOrders ==
    {ks \in SeqsUpTo(Names, Cardinality(Names)) :
        \A x, y \in 1..Len(ks) : x # y => ks[x] # ks[y]}
JLayerMapping(ks, cs) == [x \in 1..Len(ks) |-> <<ks[x], JCollection(cs[x])>>]

LayerArguments == {<<None, Black>>} \cup (Names \X Colors)

(* ------------------------------ the actions --------------------------- *)
Init ==
    /\ layers = <<>>
    /\ objects = <<>>
    /\ call = [op |-> "none"]
    /\ outcome = [exc |-> "none", ret |-> PyNone]
    /\ pre = [layers |-> <<>>, objects |-> <<>>]

(* No operation reads the object table, and the bulk operations change the
   layer table only through addRhinoLayer: every document a bulk call can
   meet, up to its objects, is one that addRhinoLayer calls alone set up.
   A behaviour is such a setup followed by one bulk call. *)
Ready == call.op \in {"none", "addRhinoLayer"}

Finish(r) ==
    /\ layers' = r.layers
    /\ objects' = r.objects
    /\ outcome' = [exc |-> r.exc, ret |-> r.ret]
    /\ pre' = [layers |-> layers, objects |-> objects]

AddRhinoLayerCall ==
    /\ Ready
    /\ \E layerName \in Names, layerColor \in Colors :
          LET r == addRhinoLayer(layers, layerName, layerColor)
          IN  /\ call' = [op |-> "addRhinoLayer", layerName |-> layerName,
                          layerColor |-> layerColor]
              /\ Finish(Returned(r.layers, objects, PyInt(r.index)))

PolygonCall ==
    /\ Ready
    /\ \E coordinates \in PolygonPayloads :
          LET r == addPolygon(objects, PolygonToRhinoCurve(coordinates),
                              ObjectAttributes)
          IN  /\ call' = [op |-> "Polygon", coordinates |-> coordinates]
              /\ Finish(Returned(layers, r.objects, r.ret))

MultiPolygonCall ==
    /\ Ready
    /\ \E coordinates \in MultiPolygonPayloads :
          LET r == addPolygons(objects, MultiPolygonToRhinoCurve(coordinates),
                               ObjectAttributes)
          IN  /\ call' = [op |-> "MultiPolygon", coordinates |-> coordinates]
              /\ Finish(Returned(layers, r.objects, r.ret))

ProcessGeoJsonCall ==
    /\ Ready
    /\ \E ids \in CollectionIds, la \in LayerArguments :
          LET parsedGeoJson == DecodeCollection(JCollection(ids))
          IN  /\ call' = [op |-> "processGeoJson", parsedGeoJson |-> parsedGeoJson,
                          destinationLayer |-> la[1],
                          destinationLayerColor |-> la[2]]
              /\ Finish(processGeoJson(layers, objects, parsedGeoJson, la[1], la[2]))

LoadCall ==
    /\ Ready
    /\ \E ids \in CollectionIds, malformed \in BOOLEAN, la \in LayerArguments :
          LET text == IF malformed THEN Malformed ELSE Text(JCollection(ids))
          IN  /\ malformed => ids = <<>>
              /\ call' = [op |-> "load", rawGeoJsonData |-> text,
                          destinationLayer |-> la[1],
                          destinationLayerColor |-> la[2]]
              /\ Finish(load(layers, objects, text, la[1], la[2]))

LoadLayersCall ==
    /\ Ready
    /\ \E ks \in KeyOrders, type \in {"str", "dict", "list"}, malformed \in BOOLEAN :
       \E cs \in [1..Len(ks) -> LayerCollectionIds] :
          LET mapping == JLayerMapping(ks, cs)
              rawJsonData ==
                  CASE type = "str" ->
                          [type |-> "str",
                           text |-> IF malformed THEN Malformed ELSE Text(mapping)]
                    [] type = "dict" ->
                          [type |-> "dict", value |-> DecodeLayers(mapping)]
                    [] type = "list" -> [type |-> "list"]
          IN  /\ (malformed \/ type = "list") => ks = <<>>
              /\ malformed => type = "str"
              /\ call' = [op |-> "loadLayers", rawJsonData |-> rawJsonData]
              /\ Finish(loadLayers(layers, objects, rawJsonData))

Next ==
    \/ AddRhinoLayerCall
    \/ PolygonCall
    \/ MultiPolygonCall
    \/ ProcessGeoJsonCall
    \/ LoadCall
    \/ LoadLayersCall

Spec == Init /\ [][Next]_vars

(* ------------------- what the claims say, independently --------------- *)
SupportedTypes ==
    {"Point", "MultiPoint", "LineString", "MultiLineString", "Polygon",
     "MultiPolygon"}
SingleTypes == {"Point", "LineString"}
TableKeys == SupportedTypes \cup {"GeometryCollection"}

RECURSIVE SumOfLens(_)
SumOfLens(seqs) ==
    IF seqs = <<>> THEN 0 ELSE Len(Head(seqs)) + SumOfLens(Tail(seqs))

RECURSIVE Flattened(_)
Flattened(seqs) ==
    IF seqs = <<>> THEN <<>> ELSE Head(seqs) \o Flattened(Tail(seqs))

(* the number of document objects a geometry stands for *)
ExpectedObjects(geom) ==
    CASE geom.type \in SingleTypes -> 1
      [] geom.type \in {"MultiPoint", "MultiLineString", "Polygon"} ->
            Len(geom.coordinates)
      [] geom.type = "MultiPolygon" -> SumOfLens(geom.coordinates)

(* the degree-1 curve through the points of a ring, at elevation zero *)
ExpectedCurve(ring) ==
    [ControlPoints |-> [p \in 1..Len(ring) |->
                           [X |-> ring[p][1], Y |-> ring[p][2], Z |-> 0]],
     Degree |-> 1]

(* the text Python gives for the property values of the inputs *)
ExpectedText(v) ==
    CASE v.py = "NoneType" -> "None"
      [] v.py = "str" -> v.s
      [] v.py = "int" /\ v.n = 0 -> "0"
      [] v.py = "float" /\ v.tenths = 0 -> "0.0"
      [] v.py = "float" /\ v.tenths = 15 -> "1.5"
      [] v.py = "dict" -> "{'this': 'that'}"

ExpectedUserStrings(properties) ==
    IF properties.py = "dict"
    THEN {<<kv[1], ExpectedText(kv[2])>> : kv \in properties.items}
    ELSE {}

(* the last call went through the features of a collection *)
WentThroughFeatures ==
    \/ call.op = "processGeoJson"
    \/ call.op = "load" /\ ~call.rawGeoJsonData.malformed

LastFeatures ==
    IF call.op = "processGeoJson" THEN call.parsedGeoJson.features
    ELSE DecodeCollection(call.rawGeoJsonData.value).features

Fails(feature) == feature.geometry.type \notin SupportedTypes

(* the first feature that cannot be converted, or one past the last feature *)
FirstFailure(features) ==
    IF \E n \in 1..Len(features) : Fails(features[n])
    THEN CHOOSE n \in 1..Len(features) :
            /\ Fails(features[n])
            /\ \A m \in 1..(n - 1) : ~Fails(features[m])
    ELSE Len(features) + 1

RECURSIVE ObjectsBefore(_, _)
ObjectsBefore(features, n) ==
    IF n <= 1 THEN 0
    ELSE ObjectsBefore(features, n - 1) + ExpectedObjects(features[n - 1].geometry)

NewObject(n) == objects[Len(pre.objects) + n]

(* ------------------------------- claims ------------------------------- *)

(* C1, as the spec states it: when every feature has a supported geometry
   type, every element of the list processGeoJson returns is a single
   identifier, never a list. *)
C1_ResultIsFlat ==
    (WentThroughFeatures /\ outcome.exc = "none")
        => \A n \in 1..Len(outcome.ret.items) : outcome.ret.items[n].py = "Guid"

(* C1, amended: processGeoJson returns one element per feature, in feature
   order; the element of a Point or LineString feature is the identifier of
   its object, and the element of a MultiPoint, MultiLineString, Polygon or
   MultiPolygon feature is the list of that feature's identifiers, in order,
   nested in the result. *)
C1_OneElementPerFeature ==
    (WentThroughFeatures /\ outcome.exc = "none") =>
        /\ outcome.ret.py = "list"
        /\ Len(outcome.ret.items) = Len(LastFeatures)
        /\ \A n \in 1..Len(LastFeatures) :
              LET geom == LastFeatures[n].geometry
                  first == Len(pre.objects) + ObjectsBefore(LastFeatures, n) + 1
                  element == outcome.ret.items[n]
              IN  IF geom.type \in SingleTypes
                  THEN element = Guid(first)
                  ELSE /\ element.py = "list"
                       /\ Len(element.items) = ExpectedObjects(geom)
                       /\ \A x \in 1..Len(element.items) :
                             element.items[x] = Guid(first + x - 1)

C1_Witness ==
    /\ WentThroughFeatures
    /\ outcome.exc = "none"
    /\ Len(LastFeatures) = 2
    /\ LastFeatures[1].geometry.type = "Polygon"
    /\ LastFeatures[2].geometry.type = "Point"
    /\ outcome.ret.items[1] = PyList(<<Guid(1), Guid(2)>>)
    /\ outcome.ret.items[2] = Guid(3)

(* C2: a feature of type GeometryCollection makes processGeoJson fail with
   a failure that names the unsupported geometry kind: not a normal return,
   not a TypeError from indexing the table entry, not a KeyError for another
   key. *)
C2_GeometryCollectionSignalsUnsupported ==
    (/\ WentThroughFeatures
     /\ FirstFailure(LastFeatures) <= Len(LastFeatures)
     /\ LastFeatures[FirstFailure(LastFeatures)].geometry.type = "GeometryCollection")
        => /\ outcome.exc \in {"KeyError", "NotImplementedError"}
           /\ outcome.ret = PyStr("GeometryCollection")

(* C3: the layer table holds at most one layer per name; addRhinoLayer
   returns the index of the one layer with the name it was given, and that
   layer has the color it was given. *)
C3_LayerCreationIdempotent ==
    /\ \A x, y \in 1..Len(layers) : layers[x].Name = layers[y].Name => x = y
    /\ call.op = "addRhinoLayer" =>
          /\ outcome.ret.py = "int"
          /\ outcome.ret.n \in 0..(Len(layers) - 1)
          /\ layers[outcome.ret.n + 1] =
                 [Name |-> call.layerName, Color |-> call.layerColor]
          /\ Len(layers) = Len(pre.layers)
                 + (IF \E x \in 1..Len(pre.layers) :
                          pre.layers[x].Name = call.layerName
                    THEN 0 ELSE 1)

C3_Witness ==
    /\ call.op = "addRhinoLayer"
    /\ call.layerColor = "Red"
    /\ Len(pre.layers) = 2
    /\ pre.layers[1] = [Name |-> call.layerName, Color |-> "Black"]
    /\ Len(layers) = 2
    /\ layers[1] = [Name |-> call.layerName, Color |-> "Red"]
    /\ outcome.ret = PyInt(0)

(* C4: converting and adding a Polygon of k rings adds exactly k objects to
   the document, the n-th being the curve of the n-th ring alone, and
   returns the list of their k identifiers. *)
C4_OneCurvePerRing ==
    call.op = "Polygon" =>
        /\ Len(objects) = Len(pre.objects) + Len(call.coordinates)
        /\ outcome.ret.py = "list"
        /\ Len(outcome.ret.items) = Len(call.coordinates)
        /\ \A n \in 1..Len(call.coordinates) :
              /\ NewObject(n).Geometry = ExpectedCurve(call.coordinates[n])
              /\ outcome.ret.items[n] = Guid(Len(pre.objects) + n)

C4_Witness ==
    /\ call.op = "Polygon"
    /\ Len(call.coordinates) = MaxRings
    /\ Len(objects) = MaxRings
    /\ objects[1].Geometry # objects[MaxRings].Geometry

(* C5: converting and adding a MultiPolygon adds one object per ring, by
   polygon and then by ring, and returns one flat list of as many
   identifiers as the polygons have rings in total, in that order. *)
C5_FlattenedByPolygonThenRing ==
    call.op = "MultiPolygon" =>
        LET rings == Flattened(call.coordinates)
        IN  /\ Len(rings) = SumOfLens(call.coordinates)
            /\ Len(objects) = Len(pre.objects) + Len(rings)
            /\ outcome.ret.py = "list"
            /\ Len(outcome.ret.items) = Len(rings)
            /\ \A n \in 1..Len(rings) :
                  /\ NewObject(n).Geometry = ExpectedCurve(rings[n])
                  /\ outcome.ret.items[n] = Guid(Len(pre.objects) + n)

C5_Witness ==
    /\ call.op = "MultiPolygon"
    /\ Len(call.coordinates) = 2
    /\ Len(call.coordinates[1]) = 2
    /\ Len(call.coordinates[2]) = 1
    /\ outcome.ret = PyList(<<Guid(1), Guid(2), Guid(3)>>)

(* C6: when loadLayers completes, the document has a layer named after
   every outer key of the mapping, also a key whose collection has no
   features, and the result has one identifier list per key. *)
C6_LayerForEveryKey ==
    (/\ call.op = "loadLayers"
     /\ call.rawJsonData.type \in {"str", "dict"}
     /\ outcome.exc = "none")
        => LET mapping == IF call.rawJsonData.type = "dict"
                          THEN call.rawJsonData.value
                          ELSE DecodeLayers(call.rawJsonData.text.value)
           IN  /\ Len(outcome.ret.items) = Len(mapping)
               /\ \A x \in 1..Len(mapping) :
                     \E y \in 1..Len(layers) : layers[y].Name = mapping[x][1]

(* C7: when the first feature that cannot be converted is the N-th and its
   type is no key of the converter table, the call fails with the KeyError
   of the table lookup for that type, returns no list, and the document
   holds exactly the objects of features 1..N-1. *)
C7_FailFastWithoutRollback ==
    (/\ WentThroughFeatures
     /\ FirstFailure(LastFeatures) <= Len(LastFeatures)
     /\ LastFeatures[FirstFailure(LastFeatures)].geometry.type \notin TableKeys)
        => LET N == FirstFailure(LastFeatures)
           IN  /\ outcome.exc = "KeyError"
               /\ outcome.ret = PyStr(LastFeatures[N].geometry.type)
               /\ SubSeq(objects, 1, Len(pre.objects)) = pre.objects
               /\ Len(objects) = Len(pre.objects) + ObjectsBefore(LastFeatures, N)

C7_Witness ==
    /\ WentThroughFeatures
    /\ Len(LastFeatures) = 2
    /\ LastFeatures[1].geometry.type = "MultiPoint"
    /\ LastFeatures[2].geometry.type = "Circle"
    /\ outcome.exc = "KeyError"
    /\ Len(objects) = 2

(* C8: every object a feature creates carries exactly one string attribute
   per key of that feature's properties, whose value is the text form of the
   property value, and no attribute of another feature. *)
C8_AttributesAreTheFeaturesOwn ==
    WentThroughFeatures =>
        \A n \in 1..(FirstFailure(LastFeatures) - 1) :
            \A x \in 1..ExpectedObjects(LastFeatures[n].geometry) :
                NewObject(ObjectsBefore(LastFeatures, n) + x).Attributes.UserStrings
                    = ExpectedUserStrings(LastFeatures[n].properties)

C8_Witness ==
    /\ WentThroughFeatures
    /\ outcome.exc = "none"
    /\ Len(LastFeatures) = 2
    /\ Len(objects) = 2
    /\ objects[1].Attributes.UserStrings =
           {<<"prop0", "value0">>, <<"prop1", "0.0">>}
    /\ objects[2].Attributes.UserStrings =
           {<<"prop2", "1.5">>, <<"prop3", "0">>, <<"prop4", "None">>}

(* C9: without a destination layer, processGeoJson and load leave the layer
   table as it was, and a collection of one Point feature yields exactly
   one point identifier. *)
C9_NoLayerWithoutDestination ==
    (\/ call.op = "processGeoJson" /\ call.destinationLayer = None
     \/ call.op = "load" /\ call.destinationLayer = None)
        => /\ layers = pre.layers
           /\ (/\ WentThroughFeatures
               /\ Len(LastFeatures) = 1
               /\ LastFeatures[1].geometry.type = "Point")
                  => /\ outcome.exc = "none"
                     /\ outcome.ret = PyList(<<Guid(Len(pre.objects) + 1)>>)
                     /\ Len(objects) = Len(pre.objects) + 1
                     /\ NewObject(1).Geometry = [X |-> 102, Y |-> 5, Z |-> 0]

C9_Witness ==
    /\ call.op = "processGeoJson"
    /\ call.destinationLayer = None
    /\ pre.layers = <<[Name |-> "a", Color |-> "Red"]>>
    /\ layers = pre.layers
    /\ Len(LastFeatures) = 1
    /\ LastFeatures[1].geometry.type = "Point"
    /\ outcome.ret = PyList(<<Guid(1)>>)

(* C10: whatever destinationLayer and destinationLayerColor load is given,
   it does what processing the decoded text without a layer does: the layer
   table is unchanged and no object it creates is assigned a layer index. *)
C10_LoadDiscardsLayerArguments ==
    call.op = "load" =>
        /\ layers = pre.layers
        /\ \A n \in (Len(pre.objects) + 1)..Len(objects) :
              ~objects[n].Attributes.LayerAssigned
        /\ ~call.rawGeoJsonData.malformed =>
              LET r == processGeoJson(pre.layers, pre.objects,
                                      DecodeCollection(call.rawGeoJsonData.value),
                                      None, Black)
              IN  /\ objects = r.objects
                  /\ outcome = [exc |-> r.exc, ret |-> r.ret]

C10_Witness ==
    /\ call.op = "load"
    /\ call.destinationLayer = "b"
    /\ call.destinationLayerColor = "Red"
    /\ outcome.exc = "none"
    /\ Len(objects) = 3
    /\ layers = <<>>

====
